---- MODULE Spec2Model ----
(***************************************************************************)
(* Model of the icon bundle script build-icons.ts (and of its variant that *)
(* resolves package paths with require.resolve): the async main function,  *)
(* organizeIconsList, the JSON source loop, the SVG directory loop with    *)
(* its per-icon callback, CSS generation, the single write of icons.css    *)
(* and the .catch handler.                                                 *)
(*                                                                         *)
(* JavaScript strings that the script parses or assembles (icon            *)
(* references, prefixes, names, selectors) are sequences of one-character  *)
(* strings, so that splitting and joining are computed.                    *)
(***************************************************************************)
EXTENDS Integers, Sequences, FiniteSets, TLC

VARIABLES
  pc,            \* position of the async main function / the process
  sources,       \* the sources object: [json, icons, svg]
  dirFiles,      \* the SVG directories on disk: dir -> sequence of [name, fill]
  allIcons,      \* const allIcons: IconifyJSON[]
  error,         \* the error the main function's promise rejected with
  i,             \* loop index of the JSON loop and of the SVG loop
  organizedList, \* const organizedList (ordered prefix -> names)
  iconSet,       \* the IconSet of the SVG directory being processed
  names,         \* IconSet.forEach: the snapshot of entry names it iterates
  cb,            \* state of the async callback of each name of the snapshot
  svgs,          \* the SVG instance each callback holds
  failed,        \* history: <<directory index, name>> of the icons that failed
  target,        \* every write made to the output path, in order
  stdout,        \* console.log lines
  stderr,        \* console.error lines
  exitCode,      \* exit status of the process (Running until it has exited)
  orgIn,         \* argument of a direct call of organizeIconsList
  orgOut         \* its result

vars == <<pc, sources, dirFiles, allIcons, error, i, organizedList, iconSet,
          names, cb, svgs, failed, target, stdout, stderr, exitCode, orgIn, orgOut>>

-----------------------------------------------------------------------------
(* Bounds of the model *)

\* sources.json entries declared statically, before the two pushed at run time
MaxJson == 1
\* length of sources.icons in a pipeline run
MaxRefs == 2
\* number of declared SVG directories
MaxSvg == 2
\* length of the list given to a direct call of organizeIconsList
MaxIcons == 3
\* SVG files in the directory of a single-directory run
MaxDirIcons == 2

-----------------------------------------------------------------------------
(* Strings *)

RECURSIVE SplitFrom(_, _, _, _)
SplitFrom(s, sep, k, cur) ==
  IF k > Len(s) THEN <<cur>>
  ELSE IF s[k] = sep THEN <<cur>> \o SplitFrom(s, sep, k + 1, <<>>)
  ELSE SplitFrom(s, sep, k + 1, Append(cur, s[k]))

\* String.prototype.split(sep) for a one-character separator
Split(s, sep) == SplitFrom(s, sep, 1, <<>>)

RECURSIVE Join(_, _)
\* Array.prototype.join(sep)
Join(parts, sep) ==
  IF Len(parts) = 0 THEN <<>>
  ELSE IF Len(parts) = 1 THEN parts[1]
  ELSE parts[1] \o sep \o Join(Tail(parts), sep)

\* Array.prototype.includes
Includes(list, x) == \E k \in 1..Len(list) : list[k] = x

-----------------------------------------------------------------------------
(* organizeIconsList *)

NullIcon == [isNull |-> TRUE]

IconName(provider, prefix, name) ==
  [isNull |-> FALSE, provider |-> provider, prefix |-> prefix, name |-> name]

\* stringToIcon(value) of @iconify/utils as the script calls it: one argument,
\* so no validation and no simple names.
stringToIcon(value) ==
  LET colonSeparated == Split(value, ":")
      hasAt == Len(value) > 0 /\ value[1] = "@"
      parts == IF hasAt THEN Tail(colonSeparated) ELSE colonSeparated
      provider == IF hasAt THEN Tail(colonSeparated[1]) ELSE <<>>
  IN IF hasAt /\ (Len(colonSeparated) < 2 \/ Len(colonSeparated) > 3)
       THEN NullIcon
     ELSE IF Len(parts) > 3 \/ Len(parts) = 0 THEN NullIcon
     ELSE IF Len(parts) > 1
       THEN IconName(IF Len(parts) > 2 THEN parts[1] ELSE provider,
                     parts[Len(parts) - 1], parts[Len(parts)])
     ELSE LET dashSeparated == Split(parts[1], "-")
          IN IF Len(dashSeparated) > 1
               THEN IconName(provider, dashSeparated[1],
                             Join(Tail(dashSeparated), <<"-">>))
             ELSE NullIcon

\* Position of the key prefix in the ordered record, 0 when it has no such key
KeyIndex(sorted, prefix) ==
  IF \E k \in 1..Len(sorted) : sorted[k].prefix = prefix
    THEN CHOOSE k \in 1..Len(sorted) : sorted[k].prefix = prefix
    ELSE 0

\* A variant of the callback without the null check: the unparsed string
\* becomes a key of its own.
organizeCallbackKeepsMalformed(sorted, icon) ==
  LET item == stringToIcon(icon)
      prefix == IF item.isNull THEN icon ELSE item.prefix
      name == IF item.isNull THEN <<>> ELSE item.name
      k == KeyIndex(sorted, prefix)
      withList == IF k # 0 THEN sorted
                  ELSE Append(sorted, [prefix |-> prefix, names |-> <<>>])
      j == IF k # 0 THEN k ELSE Len(withList)
  IN IF Includes(withList[j].names, name) THEN withList
     ELSE [withList EXCEPT ![j].names = Append(@, name)]

\* A variant of the callback that pushes the name without the includes test
organizeCallbackNoDedup(sorted, icon) ==
  LET item == stringToIcon(icon)
  IN IF item.isNull THEN sorted
     ELSE LET k == KeyIndex(sorted, item.prefix)
              withList == IF k # 0 THEN sorted
                          ELSE Append(sorted, [prefix |-> item.prefix, names |-> <<>>])
              j == IF k # 0 THEN k ELSE Len(withList)
          IN [withList EXCEPT ![j].names = Append(@, item.name)]

\* The callback of icons.forEach in organizeIconsList. sorted is the record
\* under construction, kept as the sequence of its keys in insertion order
\* (the order for..in visits keys that are not integers), each with its list
\* of names.
organizeCallback(sorted, icon) ==
  LET item == stringToIcon(icon)
  IN IF item.isNull THEN sorted
     ELSE LET prefix == item.prefix
              k == KeyIndex(sorted, prefix)
              withList == IF k # 0 THEN sorted
                          ELSE Append(sorted, [prefix |-> prefix, names |-> <<>>])
              j == IF k # 0 THEN k ELSE Len(withList)
              name == item.name
          IN IF Includes(withList[j].names, name) THEN withList
             ELSE [withList EXCEPT ![j].names = Append(@, name)]

RECURSIVE organizeFrom(_, _, _)
organizeFrom(sorted, icons, k) ==
  IF k > Len(icons) THEN sorted
  ELSE organizeFrom(organizeCallback(sorted, icons[k]), icons, k + 1)

organizeIconsList(icons) == organizeFrom(<<>>, icons, 1)

-----------------------------------------------------------------------------
(* The environment: installed packages, JSON files, SVG directories *)

SeqUpTo(S, n) == UNION {[1..k -> S] : k \in 0..n}

\* An attribute of an SVG element: not set, or set to a value
Unset == [set |-> FALSE]
Attr(v) == [set |-> TRUE, value |-> v]

\* An icon of an icon set: its name and its body, of which the model keeps
\* the fill of the shape
Icon(name, fill) == [name |-> name, body |-> [fill |-> fill]]

ri == <<"r", "i">>
bxl == <<"b", "x", "l">>
facebook == <<"f", "a", "c", "e", "b", "o", "o", "k">>
twitter == <<"t", "w", "i", "t", "t", "e", "r">>
github == <<"g", "i", "t", "h", "u", "b">>
google == <<"g", "o", "o", "g", "l", "e">>
linkedin == <<"l", "i", "n", "k", "e", "d", "i", "n">>
home == <<"h", "o", "m", "e">>

\* A file of an installed package
Path(pkg, stem) == [pkg |-> pkg, stem |-> stem]
\* '@iconify-json/ri/icons.json' and '@iconify-json/bxl/icons.json'
riJsonPath == Path("@iconify-json", ri)
bxlJsonPath == Path("@iconify-json", bxl)
\* `@iconify/json/json/${prefix}.json`
IconifyJsonPath(prefix) == Path("@iconify/json", prefix)
\* a JSON file of the project itself, as a declared source may name
customJsonPath == Path("custom", <<"m", "y">>)

\* The icon sets of @iconify/json that are installed
InstalledPrefixes == {<<"m">>, <<"o">>}

\* What JSON.parse(readFile(filename)) yields when the file is readable
FileContent(filename) ==
  IF filename = riJsonPath
    THEN [prefix |-> ri,
          icons |-> <<Icon(home, Attr("currentColor")), Icon(<<"a">>, Attr("currentColor"))>>]
  ELSE IF filename = bxlJsonPath
    THEN [prefix |-> bxl,
          icons |-> <<Icon(github, Attr("currentColor")), Icon(home, Attr("currentColor")),
                      Icon(facebook, Attr("currentColor"))>>]
  ELSE IF filename = customJsonPath
    THEN [prefix |-> <<"m", "y">>,
          icons |-> <<Icon(<<"h">>, Attr("#ff0000")), Icon(<<"a">>, Attr("none"))>>]
  ELSE IF filename = IconifyJsonPath(<<"m">>)
    THEN [prefix |-> <<"m">>,
          icons |-> <<Icon(<<"a">>, Attr("currentColor")), Icon(<<"h">>, Attr("currentColor")),
                      Icon(<<"z">>, Attr("currentColor"))>>]
  ELSE [prefix |-> filename.stem,
        icons |-> <<Icon(<<"a">>, Attr("currentColor"))>>]

\* Entries of sources.json: a bare file path, or an object with a filename and
\* an optional list of icon names
StringItem(filename) == [isString |-> TRUE, filename |-> filename]
ObjectItem(filename, icons) ==
  [isString |-> FALSE, filename |-> filename, hasIcons |-> TRUE, icons |-> icons]
ObjectItemNoIcons(filename) ==
  [isString |-> FALSE, filename |-> filename, hasIcons |-> FALSE]

\* The entries a configuration may declare statically in sources.json
DeclaredJson ==
  { StringItem(customJsonPath),
    ObjectItemNoIcons(customJsonPath),
    ObjectItem(customJsonPath, <<>>),
    ObjectItem(customJsonPath, << <<"x">>, <<"a">>, <<"x">> >>),
    ObjectItem(customJsonPath, << <<"x">> >>) }

\* The static entries of sources.json in the runs of the whole pipeline
PipelineJson ==
  { ObjectItem(customJsonPath, << <<"x">> >>),
    ObjectItem(customJsonPath, << <<"x">>, <<"a">>, <<"x">> >>) }

\* The strings a configuration may list in sources.icons
JsonRefs == { <<"m", ":", "h">>, <<"o", ":", "a">>, <<"o", ":", "h">> }

\* The strings of sources.icons in the runs of the whole pipeline
PipelineRefs == { <<"m", ":", "h">>, <<"o", ":", "a">> }

\* The strings a direct call of organizeIconsList is tried on
IconRefs ==
  { <<"m", ":", "h">>, <<"m", ":", "a">>, <<"o", ":", "h">>,
    <<"m", "h">>, <<"@", "m">>, <<"m", ":", "h", ":", "a", ":", "o">>,
    <<"m", "-", "h">> }

\* The SVG directories a configuration may declare
D1 == [dir |-> "d1", monotone |-> TRUE, prefix |-> <<"c">>]
D2 == [dir |-> "d2", monotone |-> FALSE, prefix |-> <<"e">>]
DeclaredSvg == {D1, D2}
Dirs == {"d1", "d2"}

\* The SVG files of the two directories, as [name, fill of the shape]
star == <<"s", "t", "a", "r">>
moon == <<"m", "o", "o", "n">>
sun == <<"s", "u", "n">>
DefaultDirFiles ==
  [d \in Dirs |->
     IF d = "d1"
       THEN << [name |-> star, fill |-> Attr("#ff0000")],
               [name |-> moon, fill |-> Attr("none")] >>
       ELSE << [name |-> sun, fill |-> Attr("#ff0000")] >>]

\* The SVG files in the runs of the whole pipeline: one file in each directory
PipelineDirFiles ==
  [d \in Dirs |->
     IF d = "d1"
       THEN << [name |-> star, fill |-> Attr("#ff0000")] >>
       ELSE << [name |-> sun, fill |-> Attr("none")] >>]

\* The fills an SVG file of a single-directory run may have
Fills == { Unset, Attr("none"), Attr("transparent"), Attr("#ff0000"),
           Attr("currentColor"), Attr("junk") }
FileName(k) == <<"s", ToString(k)>>

NoError == [kind |-> "none"]

\* The exit status of the process
Running == [exited |-> FALSE]
Exited(code) == [exited |-> TRUE, code |-> code]

-----------------------------------------------------------------------------
(* Initial states *)

InitRun ==
  /\ pc = "start"
  /\ allIcons = <<>>
  /\ error = NoError
  /\ i = 1
  /\ organizedList = <<>>
  /\ iconSet = [prefix |-> <<>>, entries |-> <<>>]
  /\ names = <<>>
  /\ cb = <<>>
  /\ svgs = <<>>
  /\ failed = {}
  /\ target = <<>>
  /\ stdout = <<>>
  /\ stderr = <<>>
  /\ exitCode = Running
  /\ orgIn = <<>>
  /\ orgOut = <<>>

\* A run of the script on any configuration within the bounds
Init ==
  /\ InitRun
  /\ \E json \in SeqUpTo(PipelineJson, MaxJson),
        icons \in SeqUpTo(PipelineRefs, MaxRefs),
        svg \in SeqUpTo(DeclaredSvg, MaxSvg) :
       sources = [json |-> json, icons |-> icons, svg |-> svg]
  /\ dirFiles = PipelineDirFiles

-----------------------------------------------------------------------------
(* The main function: source resolution *)

\* A variant in which a failing step is recorded and the run goes on to write
\* what it has collected
ThrowSkipsToWrite(err) ==
  /\ pc' = "css"
  /\ error' = err

\* An await or a call throws: the promise of the main function rejects
Throw(err) ==
  /\ pc' = "rejected"
  /\ error' = err

BxlIcons == <<facebook, twitter, github, google, linkedin>>

\* Both package paths resolve; sources.json gets the two entries
ResolveFixed ==
  /\ pc = "start"
  /\ sources' = [sources EXCEPT !.json =
        @ \o <<StringItem(riJsonPath), ObjectItem(bxlJsonPath, BxlIcons)>>]
  /\ pc' = "mkdir"
  /\ UNCHANGED <<dirFiles, allIcons, error, i, organizedList, iconSet, names,
                 cb, svgs, failed, target, stdout, stderr, exitCode, orgIn, orgOut>>

\* One of the two package paths does not resolve
ResolveFixedThrows ==
  /\ pc = "start"
  /\ \E filename \in {riJsonPath, bxlJsonPath} :
       Throw([kind |-> "resolve", filename |-> filename])
  /\ UNCHANGED <<sources, dirFiles, allIcons, i, organizedList, iconSet, names,
                 cb, svgs, failed, target, stdout, stderr, exitCode, orgIn, orgOut>>

\* fs.mkdir of the output directory, its failure ignored; allIcons = []
Mkdir ==
  /\ pc = "mkdir"
  /\ allIcons' = <<>>
  /\ pc' = "icons"
  /\ UNCHANGED <<sources, dirFiles, error, i, organizedList, iconSet, names,
                 cb, svgs, failed, target, stdout, stderr, exitCode, orgIn, orgOut>>

\* sources.icons is empty: the conversion is skipped
SkipIcons ==
  /\ pc = "icons"
  /\ ~(Len(sources.icons) > 0)
  /\ pc' = "json"
  /\ i' = 1
  /\ UNCHANGED <<sources, dirFiles, allIcons, error, organizedList, iconSet,
                 names, cb, svgs, failed, target, stdout, stderr, exitCode, orgIn, orgOut>>

\* const organizedList = organizeIconsList(sources.icons)
OrganizeIcons ==
  /\ pc = "icons"
  /\ Len(sources.icons) > 0
  /\ organizedList' = organizeIconsList(sources.icons)
  /\ pc' = "prefixes"
  /\ i' = 1
  /\ UNCHANGED <<sources, dirFiles, allIcons, error, iconSet, names, cb, svgs, failed,
                 target, stdout, stderr, exitCode, orgIn, orgOut>>

\* One turn of for (const prefix in organizedList): the path resolves
PushPrefix ==
  /\ pc = "prefixes"
  /\ i <= Len(organizedList)
  /\ organizedList[i].prefix \in InstalledPrefixes
  /\ sources' = [sources EXCEPT !.json =
        Append(@, ObjectItem(IconifyJsonPath(organizedList[i].prefix),
                             organizedList[i].names))]
  /\ i' = i + 1
  /\ UNCHANGED <<pc, dirFiles, allIcons, error, organizedList, iconSet, names,
                 cb, svgs, failed, target, stdout, stderr, exitCode, orgIn, orgOut>>

\* One turn of the loop: the path does not resolve
PushPrefixThrows ==
  /\ pc = "prefixes"
  /\ i <= Len(organizedList)
  /\ Throw([kind |-> "resolve",
            filename |-> IconifyJsonPath(organizedList[i].prefix)])
  /\ UNCHANGED <<sources, dirFiles, allIcons, i, organizedList, iconSet, names,
                 cb, svgs, failed, target, stdout, stderr, exitCode, orgIn, orgOut>>

PrefixesDone ==
  /\ pc = "prefixes"
  /\ i > Len(organizedList)
  /\ pc' = "json"
  /\ i' = 1
  /\ UNCHANGED <<sources, dirFiles, allIcons, error, organizedList, iconSet,
                 names, cb, svgs, failed, target, stdout, stderr, exitCode, orgIn, orgOut>>

-----------------------------------------------------------------------------
(* The main function: JSON sources *)

Null == [null |-> TRUE]

RECURSIVE PickIcons(_, _, _)
\* The icons of data named in list, once each, in the order of the list
PickIcons(data, list, done) ==
  IF Len(list) = 0 THEN <<>>
  ELSE LET n == list[1]
           hit == SelectSeq(data.icons, LAMBDA ic : ic.name = n)
       IN (IF n \in done THEN <<>> ELSE hit)
          \o PickIcons(data, Tail(list), done \cup {n})

\* getIcons(data, names) of @iconify/utils for a set without aliases: the
\* named icons that exist, null when there is none
getIcons(data, list) ==
  LET icons == PickIcons(data, list, {})
  IN IF Len(icons) = 0 THEN Null
     ELSE [prefix |-> data.prefix, icons |-> icons]

\* A variant of the test that leaves out the length of the list
HasFilterAnyList(item) == ~item.isString /\ item.hasIcons

\* typeof item !== 'string' && item.icons?.length
HasFilter(item) == ~item.isString /\ item.hasIcons /\ Len(item.icons) > 0

\* A variant that collects the whole file whatever the filter
FilteredContentWhole(content, item) == content

\* const filteredContent = getIcons(content, item.icons)
FilteredContent(content, item) == getIcons(content, item.icons)

\* One turn of the JSON loop for an entry without a filter
LoadAll ==
  /\ pc = "json"
  /\ i <= Len(sources.json)
  /\ ~HasFilter(sources.json[i])
  /\ allIcons' = Append(allIcons, FileContent(sources.json[i].filename))
  /\ i' = i + 1
  /\ UNCHANGED <<pc, sources, dirFiles, error, organizedList, iconSet, names,
                 cb, svgs, failed, target, stdout, stderr, exitCode, orgIn, orgOut>>

\* One turn of the JSON loop for an entry with a filter that finds icons
LoadFiltered ==
  /\ pc = "json"
  /\ i <= Len(sources.json)
  /\ HasFilter(sources.json[i])
  /\ LET filteredContent ==
           FilteredContent(FileContent(sources.json[i].filename), sources.json[i])
     IN /\ filteredContent # Null
        /\ allIcons' = Append(allIcons, filteredContent)
  /\ i' = i + 1
  /\ UNCHANGED <<pc, sources, dirFiles, error, organizedList, iconSet, names,
                 cb, svgs, failed, target, stdout, stderr, exitCode, orgIn, orgOut>>

\* One turn of the JSON loop for an entry with a filter that finds nothing
LoadFilteredThrows ==
  /\ pc = "json"
  /\ i <= Len(sources.json)
  /\ HasFilter(sources.json[i])
  /\ FilteredContent(FileContent(sources.json[i].filename), sources.json[i]) = Null
  /\ Throw([kind |-> "Error", message |-> "Cannot find required icons in",
            filename |-> sources.json[i].filename])
  /\ UNCHANGED <<sources, dirFiles, allIcons, i, organizedList, iconSet, names,
                 cb, svgs, failed, target, stdout, stderr, exitCode, orgIn, orgOut>>

\* fs.readFile or JSON.parse throws
ReadFileThrows ==
  /\ pc = "json"
  /\ i <= Len(sources.json)
  /\ Throw([kind |-> "readFile", filename |-> sources.json[i].filename])
  /\ UNCHANGED <<sources, dirFiles, allIcons, i, organizedList, iconSet, names,
                 cb, svgs, failed, target, stdout, stderr, exitCode, orgIn, orgOut>>

JsonDone ==
  /\ pc = "json"
  /\ i > Len(sources.json)
  /\ pc' = "svg"
  /\ i' = 1
  /\ UNCHANGED <<sources, dirFiles, allIcons, error, organizedList, iconSet,
                 names, cb, svgs, failed, target, stdout, stderr, exitCode, orgIn, orgOut>>

-----------------------------------------------------------------------------
(* The main function: SVG directories *)

\* stringToColor of @iconify/utils: the type of the parsed color, "null"
\* when the string is no color
stringToColor(colorStr) ==
  CASE colorStr = "none" -> "none"
    [] colorStr = "transparent" -> "transparent"
    [] colorStr = "currentColor" -> "current"
    [] colorStr = "#ff0000" -> "rgb"
    [] OTHER -> "null"

isEmptyColor(color) == color \in {"none", "transparent"}

defaultColor == "currentColor"

\* A variant of the callback without the test for empty colors
callbackAlwaysCurrent(attr, colorStr, color) == "currentColor"

\* callback: (attr, colorStr, color) =>
\*   !color || isEmptyColor(color) ? colorStr : 'currentColor'
callback(attr, colorStr, color) ==
  IF color = "null" \/ isEmptyColor(color) THEN colorStr ELSE "currentColor"

\* parseColors(svg, {defaultColor, callback}) on the fill of the shape: a fill
\* that is set goes through the callback, a shape without a fill gets
\* defaultColor
parseColors(svg) ==
  [svg EXCEPT !.fill =
     IF @.set THEN Attr(callback("fill", @.value, stringToColor(@.value)))
     ELSE Attr(defaultColor)]

\* A variant of remove that leaves the entry in the set
removeKeeps(entries, name) == entries

\* IconSet.remove(name)
remove(entries, name) == SelectSeq(entries, LAMBDA e : e.name # name)

\* IconSet.toSVG(name) when the entry renders
toSVG(entries, name) ==
  LET e == CHOOSE e \in {entries[k] : k \in 1..Len(entries)} : e.name = name
  IN [fill |-> e.fill]

\* IconSet.fromSVG(name, svg)
fromSVG(entries, name, svg) ==
  [k \in 1..Len(entries) |->
     IF entries[k].name = name THEN [name |-> name, fill |-> svg.fill]
     ELSE entries[k]]

\* IconSet.export()
export(set) ==
  [prefix |-> set.prefix,
   icons |-> [k \in 1..Len(set.entries) |->
                Icon(set.entries[k].name, set.entries[k].fill)]]

NoSvg == [none |-> TRUE]
InCallback == {"cleanupSVG", "parseColors", "runSVGO"}

\* IconSet.forEach calls the callback of a name once the promise of the
\* callback before it has resolved
ForEachMayCall(k) ==
  /\ k \in 1..Len(names)
  /\ cb[k] = "pending"
  /\ \A j \in 1..(k - 1) : cb[j] = "done"

\* A variant of the main function that does not await iconSet.forEach
ForEachNotAwaited == TRUE

\* await iconSet.forEach(...): every callback has been called and awaited
ForEachResolved == \A k \in 1..Len(names) : cb[k] = "done"

\* const iconSet = await importDirectory(source.dir, {prefix}), and the call of
\* iconSet.forEach, which takes the names of the entries
ImportDirectory ==
  /\ pc = "svg"
  /\ i <= Len(sources.svg)
  /\ LET source == sources.svg[i]
         files == dirFiles[source.dir]
     IN /\ iconSet' = [prefix |-> source.prefix, entries |-> files]
        /\ names' = [k \in 1..Len(files) |-> files[k].name]
        /\ cb' = [k \in 1..Len(files) |-> "pending"]
        /\ svgs' = [k \in 1..Len(files) |-> NoSvg]
  /\ pc' = "forEach"
  /\ UNCHANGED <<sources, dirFiles, allIcons, error, i, organizedList, failed,
                 target, stdout, stderr, exitCode, orgIn, orgOut>>

ImportDirectoryThrows ==
  /\ pc = "svg"
  /\ i <= Len(sources.svg)
  /\ Throw([kind |-> "importDirectory", dir |-> sources.svg[i].dir])
  /\ UNCHANGED <<sources, dirFiles, allIcons, i, organizedList, iconSet, names,
                 cb, svgs, failed, target, stdout, stderr, exitCode, orgIn, orgOut>>

\* The callback of a name starts: toSVG gives no SVG, the icon is removed
CallbackInvalid(k) ==
  /\ pc = "forEach"
  /\ ForEachMayCall(k)
  /\ iconSet' = [iconSet EXCEPT !.entries = remove(@, names[k])]
  /\ cb' = [cb EXCEPT ![k] = "done"]
  /\ failed' = failed \cup {<<i, names[k]>>}
  /\ UNCHANGED <<pc, sources, dirFiles, allIcons, error, i, organizedList,
                 names, svgs, target, stdout, stderr, exitCode, orgIn, orgOut>>

\* The callback of a name starts: toSVG gives an SVG, cleanupSVG is awaited
CallbackBegin(k) ==
  /\ pc = "forEach"
  /\ ForEachMayCall(k)
  /\ svgs' = [svgs EXCEPT ![k] = toSVG(iconSet.entries, names[k])]
  /\ cb' = [cb EXCEPT ![k] = "cleanupSVG"]
  /\ UNCHANGED <<pc, sources, dirFiles, allIcons, error, i, organizedList,
                 iconSet, names, failed, target, stdout, stderr, exitCode,
                 orgIn, orgOut>>

\* await cleanupSVG(svg) returns
CleanupSVG(k) ==
  /\ pc = "forEach"
  /\ k \in 1..Len(names)
  /\ cb[k] = "cleanupSVG"
  /\ cb' = [cb EXCEPT ![k] =
              IF sources.svg[i].monotone THEN "parseColors" ELSE "runSVGO"]
  /\ UNCHANGED <<pc, sources, dirFiles, allIcons, error, i, organizedList,
                 iconSet, names, svgs, failed, target, stdout, stderr,
                 exitCode, orgIn, orgOut>>

\* await parseColors(svg, ...) returns
ParseColors(k) ==
  /\ pc = "forEach"
  /\ k \in 1..Len(names)
  /\ cb[k] = "parseColors"
  /\ svgs' = [svgs EXCEPT ![k] = parseColors(@)]
  /\ cb' = [cb EXCEPT ![k] = "runSVGO"]
  /\ UNCHANGED <<pc, sources, dirFiles, allIcons, error, i, organizedList,
                 iconSet, names, failed, target, stdout, stderr, exitCode,
                 orgIn, orgOut>>

\* await runSVGO(svg) returns, then iconSet.fromSVG(name, svg)
RunSVGO(k) ==
  /\ pc = "forEach"
  /\ k \in 1..Len(names)
  /\ cb[k] = "runSVGO"
  /\ iconSet' = [iconSet EXCEPT !.entries = fromSVG(@, names[k], svgs[k])]
  /\ cb' = [cb EXCEPT ![k] = "done"]
  /\ UNCHANGED <<pc, sources, dirFiles, allIcons, error, i, organizedList,
                 names, svgs, failed, target, stdout, stderr, exitCode,
                 orgIn, orgOut>>

\* cleanupSVG, parseColors or runSVGO throws: the catch block logs and removes
CallbackCatch(k) ==
  /\ pc = "forEach"
  /\ k \in 1..Len(names)
  /\ cb[k] \in InCallback
  /\ stderr' = Append(stderr, [kind |-> "Error parsing", name |-> names[k],
                               dir |-> sources.svg[i].dir])
  /\ iconSet' = [iconSet EXCEPT !.entries = remove(@, names[k])]
  /\ cb' = [cb EXCEPT ![k] = "done"]
  /\ failed' = failed \cup {<<i, names[k]>>}
  /\ UNCHANGED <<pc, sources, dirFiles, allIcons, error, i, organizedList,
                 names, svgs, target, stdout, exitCode, orgIn, orgOut>>

\* allIcons.push(iconSet.export()) and the next turn of the SVG loop
Export ==
  /\ pc = "forEach"
  /\ ForEachResolved
  /\ allIcons' = Append(allIcons, export(iconSet))
  /\ i' = i + 1
  /\ pc' = "svg"
  /\ UNCHANGED <<sources, dirFiles, error, organizedList, iconSet, names, cb,
                 svgs, failed, target, stdout, stderr, exitCode, orgIn, orgOut>>

SvgDone ==
  /\ pc = "svg"
  /\ i > Len(sources.svg)
  /\ pc' = "css"
  /\ UNCHANGED <<sources, dirFiles, allIcons, error, i, organizedList, iconSet,
                 names, cb, svgs, failed, target, stdout, stderr, exitCode,
                 orgIn, orgOut>>

-----------------------------------------------------------------------------
(* The main function: CSS, the write, the end of the process *)

NL == [nl |-> TRUE]

\* iconSelector '.{prefix}-{name}' with both placeholders replaced
iconSelector(prefix, name) == <<".">> \o prefix \o <<"-">> \o name

\* getIconsCSS(iconSet, Object.keys(iconSet.icons), {iconSelector}): one rule
\* for each icon of the set
getIconsCSS(set) ==
  [k \in 1..Len(set.icons) |->
     [selector |-> iconSelector(set.prefix, set.icons[k].name),
      body |-> set.icons[k].body]]

\* A variant that joins the blocks without a separator
cssContentNoSeparator(sets) ==
  Join([k \in 1..Len(sets) |-> getIconsCSS(sets[k])], <<>>)

\* allIcons.map(getIconsCSS).join('\n')
cssContent(sets) ==
  Join([k \in 1..Len(sets) |-> getIconsCSS(sets[k])], <<NL>>)

\* await fs.writeFile(target, cssContent) and console.log
WriteFile ==
  /\ pc = "css"
  /\ target' = Append(target, cssContent(allIcons))
  /\ stdout' = Append(stdout, [kind |-> "Saved CSS to", path |-> "icons.css"])
  /\ pc' = "resolved"
  /\ UNCHANGED <<sources, dirFiles, allIcons, error, i, organizedList, iconSet,
                 names, cb, svgs, failed, stderr, exitCode, orgIn, orgOut>>

WriteFileThrows ==
  /\ pc = "css"
  /\ Throw([kind |-> "writeFile", path |-> "icons.css"])
  /\ UNCHANGED <<sources, dirFiles, allIcons, i, organizedList, iconSet, names,
                 cb, svgs, failed, target, stdout, stderr, exitCode, orgIn, orgOut>>

\* .catch(err => { console.error(err) })
Catch ==
  /\ pc = "rejected"
  /\ stderr' = Append(stderr, error)
  /\ pc' = "caught"
  /\ UNCHANGED <<sources, dirFiles, allIcons, error, i, organizedList, iconSet,
                 names, cb, svgs, failed, target, stdout, exitCode, orgIn, orgOut>>

\* Nothing is left to run: the process exits. No rejection is unhandled and
\* process.exitCode is never set.
ProcessExit ==
  /\ pc \in {"resolved", "caught"}
  /\ exitCode' = Exited(0)
  /\ pc' = "exited"
  /\ UNCHANGED <<sources, dirFiles, allIcons, error, i, organizedList, iconSet,
                 names, cb, svgs, failed, target, stdout, stderr, orgIn, orgOut>>

-----------------------------------------------------------------------------
(* Specifications *)

Next ==
  \/ ResolveFixed
  \/ ResolveFixedThrows
  \/ Mkdir
  \/ SkipIcons
  \/ OrganizeIcons
  \/ PushPrefix
  \/ PushPrefixThrows
  \/ PrefixesDone
  \/ LoadAll
  \/ LoadFiltered
  \/ LoadFilteredThrows
  \/ ReadFileThrows
  \/ JsonDone
  \/ ImportDirectory
  \/ ImportDirectoryThrows
  \/ \E k \in DOMAIN cb : CallbackInvalid(k)
  \/ \E k \in DOMAIN cb : CallbackBegin(k)
  \/ \E k \in DOMAIN cb : CleanupSVG(k)
  \/ \E k \in DOMAIN cb : ParseColors(k)
  \/ \E k \in DOMAIN cb : RunSVGO(k)
  \/ \E k \in DOMAIN cb : CallbackCatch(k)
  \/ Export
  \/ SvgDone
  \/ WriteFile
  \/ WriteFileThrows
  \/ Catch
  \/ ProcessExit

\* The script run on every configuration within the bounds
Spec == Init /\ [][Next]_vars

\* A direct call of organizeIconsList
CallOrganize ==
  /\ pc = "call"
  /\ orgOut' = organizeIconsList(orgIn)
  /\ pc' = "returned"
  /\ UNCHANGED <<sources, dirFiles, allIcons, error, i, organizedList, iconSet,
                 names, cb, svgs, failed, target, stdout, stderr, exitCode, orgIn>>

InitOrganize ==
  /\ pc = "call"
  /\ sources = [json |-> <<>>, icons |-> <<>>, svg |-> <<>>]
  /\ dirFiles = DefaultDirFiles
  /\ allIcons = <<>>
  /\ error = NoError
  /\ i = 1
  /\ organizedList = <<>>
  /\ iconSet = [prefix |-> <<>>, entries |-> <<>>]
  /\ names = <<>>
  /\ cb = <<>>
  /\ svgs = <<>>
  /\ failed = {}
  /\ target = <<>>
  /\ stdout = <<>>
  /\ stderr = <<>>
  /\ exitCode = Running
  /\ orgIn \in SeqUpTo(IconRefs, MaxIcons)
  /\ orgOut = <<>>

NextOrganize == CallOrganize

\* organizeIconsList called on every list of strings within the bounds
SpecOrganize == InitOrganize /\ [][NextOrganize]_vars

\* The script run on every configuration of JSON sources and icon references
\* within the bounds, with no SVG directory declared
InitJson ==
  /\ InitRun
  /\ \E json \in SeqUpTo(DeclaredJson, MaxJson),
        icons \in SeqUpTo(JsonRefs, MaxRefs) :
       sources = [json |-> json, icons |-> icons, svg |-> <<>>]
  /\ dirFiles = DefaultDirFiles

NextJson ==
  \/ ResolveFixed
  \/ ResolveFixedThrows
  \/ Mkdir
  \/ SkipIcons
  \/ OrganizeIcons
  \/ PushPrefix
  \/ PushPrefixThrows
  \/ PrefixesDone
  \/ LoadAll
  \/ LoadFiltered
  \/ LoadFilteredThrows
  \/ ReadFileThrows
  \/ JsonDone
  \/ SvgDone
  \/ WriteFile
  \/ WriteFileThrows
  \/ Catch
  \/ ProcessExit

SpecJson == InitJson /\ [][NextJson]_vars

\* The script as the repository configures it (no static JSON entries, no
\* icon references) with one SVG directory declared, holding any files
InitSvg ==
  /\ InitRun
  /\ \E monotone \in BOOLEAN :
       sources = [json |-> <<>>, icons |-> <<>>,
                  svg |-> <<[dir |-> "d1", monotone |-> monotone, prefix |-> <<"c">>]>>]
  /\ \E fills \in SeqUpTo(Fills, MaxDirIcons) :
       dirFiles = [d \in Dirs |->
                     IF d = "d1"
                       THEN [k \in 1..Len(fills) |-> [name |-> FileName(k), fill |-> fills[k]]]
                       ELSE DefaultDirFiles[d]]

NextSvg ==
  \/ ResolveFixed
  \/ ResolveFixedThrows
  \/ Mkdir
  \/ SkipIcons
  \/ LoadAll
  \/ LoadFiltered
  \/ ReadFileThrows
  \/ JsonDone
  \/ ImportDirectory
  \/ ImportDirectoryThrows
  \/ \E k \in DOMAIN cb : CallbackInvalid(k)
  \/ \E k \in DOMAIN cb : CallbackBegin(k)
  \/ \E k \in DOMAIN cb : CleanupSVG(k)
  \/ \E k \in DOMAIN cb : ParseColors(k)
  \/ \E k \in DOMAIN cb : RunSVGO(k)
  \/ \E k \in DOMAIN cb : CallbackCatch(k)
  \/ Export
  \/ SvgDone
  \/ WriteFile
  \/ WriteFileThrows
  \/ Catch
  \/ ProcessExit

SpecSvg == InitSvg /\ [][NextSvg]_vars

\* The script as the repository configures it with any list of SVG
\* directories within the bounds declared
InitDirs ==
  /\ InitRun
  /\ \E svg \in SeqUpTo(DeclaredSvg, MaxSvg) :
       sources = [json |-> <<>>, icons |-> <<>>, svg |-> svg]
  /\ dirFiles = DefaultDirFiles

SpecDirs == InitDirs /\ [][NextSvg]_vars

-----------------------------------------------------------------------------
(* Properties *)

Settled == pc \in {"resolved", "exited"}
SetOf(list) == {list[k] : k \in 1..Len(list)}
IconNames(set) == [k \in 1..Len(set.icons) |-> set.icons[k].name]

\* C1: the output file is written at most once, only after every JSON source
\* and every SVG directory has been processed and no step has thrown; a run
\* in which a step throws writes nothing, and a run that ends without a throw
\* has written exactly once.
C1_WriteOnceAtEnd ==
  /\ Len(target) <= 1
  /\ Len(target) = 1 =>
       /\ Settled
       /\ error = NoError
       /\ i > Len(sources.svg)
       /\ Len(allIcons) = Len(sources.json) + Len(sources.svg)
  /\ error # NoError => Len(target) = 0
  /\ (pc = "exited" /\ error = NoError) => Len(target) = 1

C1_Witness ==
  /\ pc = "exited"
  /\ Len(target) = 1
  /\ Len(sources.json) = 5
  /\ Len(sources.svg) = 2

\* C2: a run that ends with an error logs it to the error stream and exits
\* with a failure status; a run that succeeds logs the output path and exits
\* with status 0; the exit status tells the two apart.
C2_ExitStatusTellsFailure ==
  pc = "exited" =>
    /\ error # NoError =>
         /\ Includes(stderr, error)
         /\ exitCode.code # 0
    /\ error = NoError =>
         /\ Includes(stdout, [kind |-> "Saved CSS to", path |-> "icons.css"])
         /\ exitCode.code = 0

\* The names an entry of sources.json asks for: a non-empty list
AsksFor(item) ==
  IF ~item.isString /\ item.hasIcons /\ item.icons # <<>>
    THEN SetOf(item.icons) ELSE {}
NamesIn(filename) == SetOf(IconNames(FileContent(filename)))
\* Entries of sources.json whose turn of the JSON loop has pushed to allIcons
Loaded ==
  IF pc \in {"start", "mkdir", "icons", "prefixes"} THEN {}
  ELSE {j \in 1..Len(sources.json) : j <= Len(allIcons)}

C10_NoFilterLoadsWholeFile ==
  /\ \A j \in Loaded :
       AsksFor(sources.json[j]) = {} =>
         allIcons[j] = FileContent(sources.json[j].filename)
  /\ error.kind = "Error" =>
       LET item == sources.json[i]
       IN ~item.isString /\ item.hasIcons /\ Len(item.icons) > 0

C10_Witness ==
  /\ pc = "exited"
  /\ error = NoError
  /\ sources.json[1] = ObjectItem(customJsonPath, <<>>)
  /\ allIcons[1] = FileContent(customJsonPath)
  /\ allIcons[2] = FileContent(riJsonPath)

\* The fill an SVG file ends with after the per-icon steps of its directory
ProcessedFill(monotone, fill) ==
  IF ~monotone THEN fill
  ELSE IF ~fill.set THEN Attr("currentColor")
  ELSE IF fill.value \in {"#ff0000", "currentColor"} THEN Attr("currentColor")
  ELSE fill

\* SVG directories whose icon set has been exported to allIcons
Exported ==
  IF pc \in {"start", "mkdir", "icons", "prefixes", "json"} THEN {}
  ELSE {j \in 1..Len(sources.svg) : Len(sources.json) + j <= Len(allIcons)}

\* The files of directory j whose icon did not fail, as exported icons
Survivors(j) ==
  LET source == sources.svg[j]
      kept == SelectSeq(dirFiles[source.dir], LAMBDA f : <<j, f.name>> \notin failed)
  IN [k \in 1..Len(kept) |->
        Icon(kept[k].name, ProcessedFill(source.monotone, kept[k].fill))]

\* C6: the icon set exported for an SVG directory holds exactly the icons
\* that did not fail, each as its own file determines it, whatever other
\* icons of the directory failed; a failed icon never rejects the run, which
\* goes on to the next directory and to the write of the output file.
C6_FailedIconsOnlyDropped ==
  /\ \A j \in Exported :
       /\ allIcons[Len(sources.json) + j].icons = Survivors(j)
       /\ allIcons[Len(sources.json) + j].prefix = sources.svg[j].prefix
  /\ pc = "forEach" => error = NoError
  /\ (failed # {} /\ error # NoError) =>
       error.kind \in {"importDirectory", "writeFile"}
  /\ (pc = "exited" /\ error = NoError) =>
       /\ Exported = 1..Len(sources.svg)
       /\ Len(target) = 1

C6_Witness ==
  /\ pc = "exited"
  /\ Len(target) = 1
  /\ sources.svg = <<D1, D2>>
  /\ failed = {<<1, moon>>}
  /\ IconNames(allIcons[Len(sources.json) + 1]) = <<star>>
  /\ IconNames(allIcons[Len(sources.json) + 2]) = <<sun>>

\* The prefixes of the references of sources.icons that parse, each once, in
\* the order of first occurrence
RECURSIVE FirstSeen(_, _)
FirstSeen(list, seen) ==
  IF Len(list) = 0 THEN <<>>
  ELSE LET item == stringToIcon(list[1])
       IN IF item.isNull \/ item.prefix \in seen THEN FirstSeen(Tail(list), seen)
          ELSE <<item.prefix>> \o FirstSeen(Tail(list), seen \cup {item.prefix})
RefPrefixes == FirstSeen(sources.icons, {})
\* Number of entries of sources.json that were declared statically
Declared == Len(sources.json) - 2 - Len(RefPrefixes)
Blocks == Split(target[1], NL)

\* C7: after a successful run the output is one block for each accumulated
\* icon set, blocks separated by one newline: first the JSON sources as
\* declared, then one source for each distinct prefix of the icon
\* references, then the SVG directories as declared; each rule of a block has
\* the selector .prefix-name of its set and icon.
C7_BlocksInAccumulationOrder ==
  (Settled /\ error = NoError) =>
    /\ Len(target) = 1
    /\ Declared \in 0..Len(sources.json)
    /\ \A j \in 1..Declared : sources.json[j] \in DeclaredJson
    /\ sources.json[Declared + 1] = StringItem(riJsonPath)
    /\ sources.json[Declared + 2].filename = bxlJsonPath
    /\ {sources.json[Declared + 2 + k].filename : k \in 1..Len(RefPrefixes)}
         = {IconifyJsonPath(RefPrefixes[k]) : k \in 1..Len(RefPrefixes)}
    /\ LET blocks == Blocks
       IN /\ Len(blocks) = Len(sources.json) + Len(sources.svg)
          /\ Len(blocks) = Len(allIcons)
          /\ \A j \in 1..Len(blocks) :
               LET prefix == IF j <= Len(sources.json)
                               THEN FileContent(sources.json[j].filename).prefix
                               ELSE sources.svg[j - Len(sources.json)].prefix
               IN /\ Len(blocks[j]) = Len(allIcons[j].icons)
                  /\ \A k \in 1..Len(blocks[j]) :
                       blocks[j][k].selector =
                         <<".">> \o prefix \o <<"-">> \o allIcons[j].icons[k].name

C7_Witness ==
  /\ pc = "exited"
  /\ error = NoError
  /\ Declared = 1
  /\ RefPrefixes = << <<"o">>, <<"m">> >>
  /\ sources.svg = <<D2, D1>>
  /\ failed = {}
  /\ Len(Blocks) = 7
  /\ Blocks[4][1].selector = <<".", "o", "-", "a">>
  /\ Blocks[6][1].selector = <<".", "e", "-", "s", "u", "n">>

\* C9: within an SVG directory at most one per-icon callback is between its
\* start and its end, the callbacks before it have ended and those after it
\* have not started; the set of the directory is exported only when the
\* callbacks of all its icons have ended.
C9_CallbacksOneAtATime ==
  /\ Cardinality({k \in DOMAIN cb : cb[k] \in InCallback}) <= 1
  /\ \A k \in DOMAIN cb :
       cb[k] \in InCallback =>
         /\ \A j \in 1..(k - 1) : cb[j] = "done"
         /\ \A j \in (k + 1)..Len(cb) : cb[j] = "pending"
  /\ pc # "forEach" => \A k \in DOMAIN cb : cb[k] = "done"

C9_Witness ==
  /\ pc = "forEach"
  /\ Len(cb) = 2
  /\ cb[1] = "done"
  /\ cb[2] = "parseColors"
  /\ Len(allIcons) = Len(sources.json) + 1

\* Callbacks of the directory in process that are past the recolor step with
\* their SVG in hand
PastRecolor ==
  {k \in DOMAIN cb :
     /\ svgs[k] # NoSvg
     /\ \/ cb[k] = "runSVGO"
        \/ cb[k] = "done" /\ <<i, names[k]>> \notin failed}

\* The fill an SVG file would end with if a missing fill were left alone
ClaimedFill(monotone, fill) ==
  IF ~monotone THEN fill
  ELSE IF ~fill.set THEN fill
  ELSE IF fill.value \in {"#ff0000", "currentColor"} THEN Attr("currentColor")
  ELSE fill

\* C8 as stated: in a monotone directory every real color becomes
\* currentColor and every absent, none, transparent or unparseable color
\* value stays as it was; in a directory that is not monotone no color
\* changes.
C8_AbsentFillUntouched ==
  pc = "forEach" =>
    \A k \in PastRecolor :
      svgs[k].fill =
        ClaimedFill(sources.svg[i].monotone, dirFiles[sources.svg[i].dir][k].fill)

\* C8 amended: in a monotone directory every real color becomes currentColor,
\* a fill of none, transparent or an unparseable string stays as it was, and
\* a shape without a fill gets fill currentColor (the defaultColor given to
\* parseColors); in a directory that is not monotone no color changes. The
\* exported icons carry these fills.
C8_MonotoneRecolor ==
  /\ pc = "forEach" =>
       \A k \in PastRecolor :
         svgs[k].fill =
           ProcessedFill(sources.svg[i].monotone, dirFiles[sources.svg[i].dir][k].fill)
  /\ \A j \in Exported :
       \A k \in 1..Len(allIcons[Len(sources.json) + j].icons) :
         LET icon == allIcons[Len(sources.json) + j].icons[k]
             file == CHOOSE f \in SetOf(dirFiles[sources.svg[j].dir]) :
                       f.name = icon.name
         IN icon.body.fill = ProcessedFill(sources.svg[j].monotone, file.fill)

C8_Witness ==
  /\ pc = "exited"
  /\ error = NoError
  /\ sources.svg[1].monotone
  /\ failed = {}
  /\ dirFiles["d1"] = << [name |-> FileName(1), fill |-> Unset],
                         [name |-> FileName(2), fill |-> Attr("none")] >>
  /\ allIcons[3].icons = << Icon(FileName(1), Attr("currentColor")),
                            Icon(FileName(2), Attr("none")) >>

\* A reference of the form prefix:name: one colon, with a non-empty prefix
\* not starting with @ before it and a non-empty name after it
Colons(s) == {k \in 1..Len(s) : s[k] = ":"}
Colon(s) == CHOOSE k \in Colons(s) : TRUE
IsValidRef(s) ==
  /\ Cardinality(Colons(s)) = 1
  /\ Colon(s) > 1
  /\ Colon(s) < Len(s)
  /\ s[1] # "@"
RefPrefix(s) == SubSeq(s, 1, Colon(s) - 1)
RefName(s) == SubSeq(s, Colon(s) + 1, Len(s))
\* Position of the first occurrence of prefix:name in the list
FirstAt(list, prefix, name) ==
  CHOOSE k \in 1..Len(list) :
    /\ RefPrefix(list[k]) = prefix /\ RefName(list[k]) = name
    /\ \A j \in 1..(k - 1) : ~(RefPrefix(list[j]) = prefix /\ RefName(list[j]) = name)

\* C4: for a list of valid prefix:name references the keys of the result are
\* exactly the prefixes of the list, and each prefix maps to the names that
\* occur with it, each once, in the order of first occurrence.
C4_GroupsByPrefixFirstSeen ==
  (pc = "returned" /\ \A k \in 1..Len(orgIn) : IsValidRef(orgIn[k])) =>
    /\ {orgOut[a].prefix : a \in 1..Len(orgOut)}
         = {RefPrefix(orgIn[k]) : k \in 1..Len(orgIn)}
    /\ \A a, b \in 1..Len(orgOut) : orgOut[a].prefix = orgOut[b].prefix => a = b
    /\ \A a \in 1..Len(orgOut) :
         LET prefix == orgOut[a].prefix
             list == orgOut[a].names
         IN /\ SetOf(list) = {RefName(orgIn[k]) :
                                k \in {m \in 1..Len(orgIn) : RefPrefix(orgIn[m]) = prefix}}
            /\ \A x, y \in 1..Len(list) :
                 x < y => /\ list[x] # list[y]
                          /\ FirstAt(orgIn, prefix, list[x]) < FirstAt(orgIn, prefix, list[y])

C4_Witness ==
  /\ pc = "returned"
  /\ orgIn = << <<"m", ":", "h">>, <<"o", ":", "h">>, <<"m", ":", "a">> >>
  /\ orgOut = << [prefix |-> <<"m">>, names |-> << <<"h">>, <<"a">> >>],
                 [prefix |-> <<"o">>, names |-> << <<"h">> >>] >>

Parses(s) == ~stringToIcon(s).isNull

\* C5: organizeIconsList returns for every list, and a string that does not
\* parse contributes nothing: the result is the result for the list without
\* such strings, and every key and name comes from a string that parses.
C5_MalformedIgnored ==
  /\ error = NoError
  /\ pc = "returned" =>
       /\ orgOut = organizeIconsList(SelectSeq(orgIn, Parses))
       /\ \A a \in 1..Len(orgOut) :
            /\ \E k \in 1..Len(orgIn) :
                 Parses(orgIn[k]) /\ stringToIcon(orgIn[k]).prefix = orgOut[a].prefix
            /\ \A n \in SetOf(orgOut[a].names) :
                 \E k \in 1..Len(orgIn) :
                   /\ Parses(orgIn[k])
                   /\ stringToIcon(orgIn[k]).prefix = orgOut[a].prefix
                   /\ stringToIcon(orgIn[k]).name = n
       /\ (\A k \in 1..Len(orgIn) : ~Parses(orgIn[k])) => orgOut = <<>>

C5_Witness ==
  /\ pc = "returned"
  /\ orgIn = << <<"m", "h">>, <<"m", ":", "h">>, <<"@", "m">> >>
  /\ orgOut = << [prefix |-> <<"m">>, names |-> << <<"h">> >>] >>

====
